---- MODULE Spec2Model ----
(***************************************************************************)
(* Room message store (class Chat), its wire protocol and the client       *)
(* reconciler (component App) of the chat application.                     *)
(*                                                                         *)
(* Encoding of JavaScript values:                                          *)
(*   - an optional number (timestamp) is an integer; Undefined and Null    *)
(*     are two negative sentinels, every real timestamp is >= 0;           *)
(*   - an optional attachment list (svgs) is a sequence holding zero or    *)
(*     one list: << >> is undefined, << l >> is the list l;                *)
(*   - a TEXT column holding JSON is << >> for SQL NULL and                *)
(*     << "json", l >> for the text JSON.stringify(l); << "text" >> is a   *)
(*     non-empty text that JSON.parse rejects;                             *)
(*   - a wire payload is the record JSON.parse yields for it; a text that  *)
(*     JSON.parse rejects is the record [type |-> "garbage"];              *)
(*   - a string that the code inspects character by character (form      *)
(*     fields, file names, storage keys) is a sequence of one-character    *)
(*     strings;                                                            *)
(*   - a number computed by normalizeSvg is a fraction <<n, d>> in lowest  *)
(*     terms with d > 0; <<1, 0>> and <<-1, 0>> are Infinity and           *)
(*     -Infinity, <<0, 0>> is NaN.  Arithmetic is exact: the rounding of   *)
(*     IEEE doubles is not modelled.  A number printed with toFixed is the *)
(*     fraction that the printed decimal denotes.                          *)
(***************************************************************************)
EXTENDS Integers, Sequences, FiniteSets, TLC

\* ------------------------------------------------------------------ bounds
\* number of payloads the server handles in one behaviour
MaxRecv == 2

\* number of upload requests in one behaviour
MaxUploads == 2

\* number of files submitted to the upload endpoint in one behaviour
MaxFiles == 3

\* number of times normalizeSvg is applied to one document
MaxNorm == 2

\* number of pointer positions the canvas takes in one behaviour
MaxPoints == 3

\* ------------------------------------------------------------ value domains
Undefined == -1
Null == -2

Ids == {"a", "b"}
Contents == {"hi", "hi there"}
Users == {"Alice", "Bob"}
Conns == {"c1", "c2"}

NoSvgs == << >>
Att1 == [id |-> "f1", url |-> "/api/svg/svgs/r/Alice/a/x.svg", filename |-> "x.svg"]

ChatMessage(id, content, user, role, timestamp, svgs) ==
    [id |-> id, content |-> content, user |-> user, role |-> role,
     timestamp |-> timestamp, svgs |-> svgs]

\* arguments of the direct saveMessage calls
SavedMessages ==
    { ChatMessage(i, c, u, "user", t, s) :
        i \in Ids, c \in Contents, u \in Users, t \in {Undefined, 0, 7},
        s \in {NoSvgs, << << >> >>, << <<Att1>> >>} }

\* messages carried by add / update payloads arriving from the network
WireMessages ==
    { ChatMessage(i, c, u, "user", 7, NoSvgs) :
        i \in Ids, c \in Contents, u \in Users }

Tag(type, m) ==
    [type |-> type, id |-> m.id, content |-> m.content, user |-> m.user,
     role |-> m.role, timestamp |-> m.timestamp, svgs |-> m.svgs]

All(list) == [type |-> "all", messages |-> list]

Garbage == [type |-> "garbage"]

WirePayloads ==
    { Tag(ty, m) : ty \in {"add", "update"}, m \in WireMessages }
        \cup {All(<< >>), Garbage}

IsUpsert(p) == p.type \in {"add", "update"}

\* the ChatMessage that onMessage builds from a parsed add / update
ParsedMessage(p) ==
    ChatMessage(p.id, p.content, p.user, p.role, p.timestamp, p.svgs)

IdsOf(list) == { list[i].id : i \in DOMAIN list }

Count(list, id) == Cardinality({ i \in DOMAIN list : list[i].id = id })

NoDup(list) == \A i, j \in DOMAIN list : list[i].id = list[j].id => i = j

\* ------------------------------------------------------------------- state
VARIABLES
    status,     \* "constructed" | "started" | "hibernated"
    messages,   \* Chat.messages
    table,      \* rows of the SQL table messages, in rowid order
    conns,      \* connections that are members of the room
    sent,       \* sent[c]: payloads sent to connection c since it joined
    nrecv,      \* number of payloads handled by onMessage
    bcast,      \* last broadcast of onMessage, with the store at that moment
    firstSeen,  \* ids in the order saveMessage first received them
    latest,     \* latest[id]: the last message saveMessage received for id
    cmsgs,      \* cmsgs[c]: App state `messages` of the client on c
    seen,       \* seen[c]: `messages` as captured by c's onMessage closure
    out,        \* out[c]: payloads in flight from client c to the server
    rcvd,       \* rcvd[c]: how many entries of sent[c] client c has handled
    usedIds,    \* ids nanoid has produced
    opt,        \* opt[c]: <<id, index>> of c's optimistic entries
    bucket,     \* env.SVG_BUCKET: storage key -> stored document
    issued,     \* descriptors returned so far, each with the bytes it named
    resp,       \* the last response of handleSvgUpload
    lastReq,    \* the request of that response, and the put that failed
    nuuid,      \* number of crypto.randomUUID() calls so far
    nupl,       \* number of upload requests handled
    nfiles,     \* number of files submitted in those requests
    norm,       \* the last call of normalizeSvg: its source and its result
    msgIdRef,   \* App currentMessageIdRef.current ("null" or an id)
    pendingSvgs, \* App state pendingSvgs, each with the message id in its url
    inflight,   \* uploads of App whose fetch has not returned
    nstarted,   \* number of uploads App has started
    posted,     \* messages the form has sent: id and attachments
    paths,      \* HandwritingCanvas state paths
    currentPath, \* HandwritingCanvas state currentPath
    isDrawing,  \* HandwritingCanvas state isDrawing
    strokeWidth, \* HandwritingCanvas state strokeWidth
    saved,      \* the last document HandwritingCanvas passed to onSave
    lastSave,   \* what the last click on a save button did
    npoints     \* number of pointer positions the canvas has taken

serverVars == <<status, messages, table, conns, sent, nrecv, bcast>>
ghostVars == <<firstSeen, latest>>
clientVars == <<cmsgs, seen, out, rcvd, usedIds, opt>>
uploadVars == <<bucket, issued, resp, lastReq, nuuid, nupl, nfiles, norm>>
composeVars == <<msgIdRef, pendingSvgs, inflight, nstarted, posted>>
canvasVars ==
    <<paths, currentPath, isDrawing, strokeWidth, saved, lastSave, npoints>>
vars == <<status, messages, table, conns, sent, nrecv, bcast,
          firstSeen, latest, cmsgs, seen, out, rcvd, usedIds, opt,
          bucket, issued, resp, lastReq, nuuid, nupl, nfiles, norm,
          msgIdRef, pendingSvgs, inflight, nstarted, posted,
          paths, currentPath, isDrawing, strokeWidth, saved, lastSave,
          npoints>>

NoBcast ==
    [payload |-> Garbage, from |-> "none", mem |-> << >>, tab |-> << >>,
     to |-> {}]

Init ==
    /\ status = "constructed"
    /\ messages = << >>
    /\ table = << >>
    /\ conns = {}
    /\ sent = [c \in Conns |-> << >>]
    /\ nrecv = 0
    /\ bcast = NoBcast
    /\ firstSeen = << >>
    /\ latest = [i \in {} |-> 0]
    /\ cmsgs = [c \in Conns |-> << >>]
    /\ seen = [c \in Conns |-> << >>]
    /\ out = [c \in Conns |-> << >>]
    /\ rcvd = [c \in Conns |-> 0]
    /\ usedIds = {}
    /\ opt = [c \in Conns |-> {}]
    /\ bucket = << >>
    /\ issued = {}
    /\ resp = [status |-> 0, svgs |-> << >>]
    /\ lastReq = [method |-> "none", files |-> << >>, room |-> << >>,
                  user |-> << >>, messageId |-> << >>, failAt |-> 0]
    /\ nuuid = 0
    /\ nupl = 0
    /\ nfiles = 0
    /\ norm = << >>
    /\ msgIdRef = "null"
    /\ pendingSvgs = << >>
    /\ inflight = {}
    /\ nstarted = 0
    /\ posted = << >>
    /\ paths = << >>
    /\ currentPath = << >>
    /\ isDrawing = FALSE
    /\ strokeWidth = 3
    /\ saved = << >>
    /\ lastSave = "none"
    /\ npoints = 0

\* ------------------------------------------------------------ durable table
\* `message.timestamp || null`
TimestampOrNull(t) == IF t = Undefined \/ t = Null \/ t = 0 THEN Null ELSE t

\* `message.svgs ? JSON.stringify(message.svgs) : null`
SvgsJson(s) == IF s = NoSvgs THEN << >> ELSE <<"json", s[1]>>

\* `row.svgs ? JSON.parse(row.svgs) : undefined`
ParseSvgs(col) == IF col = << >> THEN NoSvgs ELSE << col[2] >>

RowOf(m) ==
    [id |-> m.id, user |-> m.user, role |-> m.role, content |-> m.content,
     timestamp |-> TimestampOrNull(m.timestamp), svgs |-> SvgsJson(m.svgs)]

\* INSERT ... ON CONFLICT (id) DO UPDATE SET content, timestamp, svgs
Upsert(tbl, m) ==
    IF m.id \in IdsOf(tbl)
    THEN [i \in DOMAIN tbl |->
            IF tbl[i].id = m.id
            THEN [tbl[i] EXCEPT !.content = m.content,
                                !.timestamp = TimestampOrNull(m.timestamp),
                                !.svgs = SvgsJson(m.svgs)]
            ELSE tbl[i]]
    ELSE Append(tbl, RowOf(m))

RowToMessage(row) ==
    ChatMessage(row.id, row.content, row.user, row.role, row.timestamp,
                ParseSvgs(row.svgs))

\* JSON.parse(row.svgs) returns for every row that has a non-empty svgs text
Loadable(tbl) ==
    \A i \in DOMAIN tbl :
        IF Len(tbl[i].svgs) = 0 THEN TRUE ELSE tbl[i].svgs[1] = "json"

\* rows.map(...) of onStart
LoadMessagesPartial(tbl) ==
    IF tbl = << >> THEN << >> ELSE << RowToMessage(tbl[1]) >>

LoadMessages(tbl) == [i \in DOMAIN tbl |-> RowToMessage(tbl[i])]

\* ------------------------------------------------------------ saveMessage
\* the in-memory half of saveMessage: find, then map-replace or push
SaveInMemoryAlwaysPush(msgs, m) == Append(msgs, m)

SaveInMemoryKeepOld(msgs, m) ==
    IF m.id \in IdsOf(msgs) THEN msgs ELSE Append(msgs, m)

SaveInMemory(msgs, m) ==
    IF m.id \in IdsOf(msgs)
    THEN [i \in DOMAIN msgs |-> IF msgs[i].id = m.id THEN m ELSE msgs[i]]
    ELSE Append(msgs, m)

\* the store after onMessage has handled payload p: <<messages, table>>
StoreAfterUpdateOnlyKnown(msgs, tbl, p) ==
    IF p.type = "add" \/ (p.type = "update" /\ p.id \in IdsOf(msgs))
    THEN <<SaveInMemory(msgs, ParsedMessage(p)), Upsert(tbl, ParsedMessage(p))>>
    ELSE <<msgs, tbl>>

StoreAfter(msgs, tbl, p) ==
    IF IsUpsert(p)
    THEN <<SaveInMemory(msgs, ParsedMessage(p)), Upsert(tbl, ParsedMessage(p))>>
    ELSE <<msgs, tbl>>

\* ----------------------------------------------------------- server events
\* the room object is evicted; a later event constructs it again
Hibernate ==
    /\ status = "started"
    /\ status' = "hibernated"
    /\ messages' = << >>
    /\ UNCHANGED <<table, conns, sent, nrecv, bcast>>
    /\ UNCHANGED ghostVars
    /\ UNCHANGED uploadVars
    /\ UNCHANGED composeVars
    /\ UNCHANGED canvasVars
    /\ UNCHANGED clientVars

OnStart ==
    /\ status # "started"
    /\ Loadable(table)
    /\ status' = "started"
    /\ messages' = LoadMessages(table)
    /\ UNCHANGED <<table, conns, sent, nrecv, bcast>>
    /\ UNCHANGED ghostVars
    /\ UNCHANGED uploadVars
    /\ UNCHANGED composeVars
    /\ UNCHANGED canvasVars
    /\ UNCHANGED clientVars

\* the status of a room object whose onStart has thrown
StatusAfterFailedStartServing == "started"

StatusAfterFailedStart == "failed"

\* onStart on a table with a row whose svgs text JSON.parse rejects: the
\* exception leaves rows.map before this.messages is assigned
OnStartFails ==
    /\ status # "started"
    /\ ~Loadable(table)
    /\ status' = StatusAfterFailedStart
    /\ messages' = << >>
    /\ UNCHANGED <<table, conns, sent, nrecv, bcast>>
    /\ UNCHANGED ghostVars
    /\ UNCHANGED uploadVars
    /\ UNCHANGED composeVars
    /\ UNCHANGED canvasVars
    /\ UNCHANGED clientVars

\* the stored svgs text of row i is damaged
CorruptRow(i) ==
    /\ i \in DOMAIN table
    /\ table[i].svgs # <<"text">>
    /\ table' = [table EXCEPT ![i].svgs = <<"text">>]
    /\ UNCHANGED <<status, messages, conns, sent, nrecv, bcast>>
    /\ UNCHANGED ghostVars
    /\ UNCHANGED uploadVars
    /\ UNCHANGED composeVars
    /\ UNCHANGED canvasVars
    /\ UNCHANGED clientVars

\* the payload onConnect sends to the joining connection
Snapshot(msgs) == All(msgs)

ServerConnect(c) ==
    /\ status = "started"
    /\ c \notin conns
    /\ conns' = conns \cup {c}
    /\ sent' = [sent EXCEPT ![c] = << Snapshot(messages) >>]
    /\ UNCHANGED <<status, messages, table, nrecv, bcast>>

ServerClose(c) ==
    /\ c \in conns
    /\ conns' = conns \ {c}
    /\ sent' = [sent EXCEPT ![c] = << >>]
    /\ UNCHANGED <<status, messages, table, nrecv, bcast>>

\* the connections this.broadcast(message) sends to
BroadcastTargetsExcludeSender(c) == conns \ {c}

BroadcastTargets(c) == conns

\* onMessage(connection c, message p)
ServerMessage(c, p) ==
    /\ status = "started"
    /\ c \in conns
    /\ nrecv < MaxRecv
    /\ nrecv' = nrecv + 1
    /\ sent' = [d \in Conns |->
                  IF d \in BroadcastTargets(c) THEN Append(sent[d], p)
                  ELSE sent[d]]
    /\ bcast' = [payload |-> p, from |-> c, mem |-> messages, tab |-> table,
                 to |-> BroadcastTargets(c)]
    /\ messages' = StoreAfter(messages, table, p)[1]
    /\ table' = StoreAfter(messages, table, p)[2]
    /\ UNCHANGED <<status, conns>>

OnConnect(c) ==
    /\ ServerConnect(c)
    /\ rcvd' = [rcvd EXCEPT ![c] = 0]
    /\ out' = [out EXCEPT ![c] = << >>]
    /\ UNCHANGED <<cmsgs, seen, usedIds, opt>>
    /\ UNCHANGED ghostVars
    /\ UNCHANGED uploadVars
    /\ UNCHANGED composeVars
    /\ UNCHANGED canvasVars

OnClose(c) ==
    /\ ServerClose(c)
    /\ rcvd' = [rcvd EXCEPT ![c] = 0]
    /\ out' = [out EXCEPT ![c] = << >>]
    /\ UNCHANGED <<cmsgs, seen, usedIds, opt>>
    /\ UNCHANGED ghostVars
    /\ UNCHANGED uploadVars
    /\ UNCHANGED composeVars
    /\ UNCHANGED canvasVars

\* a payload arrives from the network on connection c
OnMessage(c, p) ==
    /\ ServerMessage(c, p)
    /\ UNCHANGED ghostVars
    /\ UNCHANGED uploadVars
    /\ UNCHANGED composeVars
    /\ UNCHANGED canvasVars
    /\ UNCHANGED clientVars

\* a direct call saveMessage(m)
SaveCall(m) ==
    /\ status = "started"
    /\ messages' = SaveInMemory(messages, m)
    /\ table' = Upsert(table, m)
    /\ firstSeen' = IF \E i \in DOMAIN firstSeen : firstSeen[i] = m.id
                    THEN firstSeen ELSE Append(firstSeen, m.id)
    /\ latest' = [i \in DOMAIN latest \cup {m.id} |->
                    IF i = m.id THEN m ELSE latest[i]]
    /\ UNCHANGED <<status, conns, sent, nrecv, bcast>>
    /\ UNCHANGED clientVars
    /\ UNCHANGED uploadVars
    /\ UNCHANGED composeVars
    /\ UNCHANGED canvasVars

\* a direct call saveMessage(m) whose sql.exec throws: the list is updated
\* (lines 64-73) before the statement runs (lines 76-87)
SaveCallFails(m) ==
    /\ status = "started"
    /\ messages' = SaveInMemory(messages, m)
    /\ table' = table
    /\ firstSeen' = IF \E i \in DOMAIN firstSeen : firstSeen[i] = m.id
                    THEN firstSeen ELSE Append(firstSeen, m.id)
    /\ latest' = [i \in DOMAIN latest \cup {m.id} |->
                    IF i = m.id THEN m ELSE latest[i]]
    /\ UNCHANGED <<status, conns, sent, nrecv, bcast>>
    /\ UNCHANGED clientVars
    /\ UNCHANGED uploadVars
    /\ UNCHANGED composeVars
    /\ UNCHANGED canvasVars

\* ------------------------------------------------------------------ client
\* the name the user of the client on connection c entered
NameOf(c) == IF c = "c1" THEN "Alice" ELSE "Bob"

\* values Date.now() returns
Clock == {7}

\* messages.findIndex((m) => m.id === id), 1-based; 0 when there is none
FindIndex(list, id) ==
    IF id \in IdsOf(list)
    THEN CHOOSE i \in DOMAIN list :
            /\ list[i].id = id
            /\ \A j \in DOMAIN list : list[j].id = id => i <= j
    ELSE 0

Min(x, y) == IF x < y THEN x ELSE y

\* list.slice(0, k - 1).concat(m).concat(list.slice(k)) for the 1-based k
ReplaceAt(list, k, m) ==
    SubSeq(list, 1, Min(k - 1, Len(list))) \o <<m>> \o SubSeq(list, k + 1, Len(list))

\* the list the client holds after its onMessage handled payload p;
\* view is the list its closure captured, list the state the updaters get
ClientHandleMergeSnapshot(list, view, p) ==
    IF p.type = "garbage" THEN list
    ELSE IF p.type = "add" THEN
        IF FindIndex(view, p.id) = 0
        THEN Append(list, ParsedMessage(p))
        ELSE ReplaceAt(list, FindIndex(view, p.id), ParsedMessage(p))
    ELSE IF p.type = "update" THEN
        [i \in DOMAIN list |->
            IF list[i].id = p.id THEN ParsedMessage(p) ELSE list[i]]
    ELSE list \o p.messages

ClientHandle(list, view, p) ==
    IF p.type = "garbage" THEN list
    ELSE IF p.type = "add" THEN
        IF FindIndex(view, p.id) = 0
        THEN Append(list, ParsedMessage(p))
        ELSE ReplaceAt(list, FindIndex(view, p.id), ParsedMessage(p))
    ELSE IF p.type = "update" THEN
        [i \in DOMAIN list |->
            IF list[i].id = p.id THEN ParsedMessage(p) ELSE list[i]]
    ELSE p.messages

\* the client on c handles the next payload the server sent it; rendered
\* tells whether the component re-renders before its next event
Deliver(c, rendered) ==
    /\ c \in conns
    /\ rcvd[c] < Len(sent[c])
    /\ LET p == sent[c][rcvd[c] + 1]
           list == ClientHandle(cmsgs[c], seen[c], p)
       IN /\ cmsgs' = [cmsgs EXCEPT ![c] = list]
          /\ seen' = [seen EXCEPT ![c] = IF rendered THEN list ELSE @]
          /\ opt' = [opt EXCEPT ![c] = IF p.type = "all" THEN {} ELSE @]
    /\ rcvd' = [rcvd EXCEPT ![c] = @ + 1]
    /\ UNCHANGED <<out, usedIds>>
    /\ UNCHANGED serverVars
    /\ UNCHANGED ghostVars
    /\ UNCHANGED uploadVars
    /\ UNCHANGED composeVars
    /\ UNCHANGED canvasVars

\* the user of the client on c submits the form with text content
Submit(c, content, rendered) ==
    /\ c \in conns
    /\ \E id \in Ids \ usedIds, now \in Clock :
        LET chatMessage ==
                ChatMessage(id, content, NameOf(c), "user", now, NoSvgs)
            list == Append(cmsgs[c], chatMessage)
        IN /\ cmsgs' = [cmsgs EXCEPT ![c] = list]
           /\ seen' = [seen EXCEPT ![c] = IF rendered THEN list ELSE @]
           /\ out' = [out EXCEPT ![c] = Append(@, Tag("add", chatMessage))]
           /\ usedIds' = usedIds \cup {id}
           /\ opt' = [opt EXCEPT ![c] = @ \cup {<<id, Len(list)>>}]
    /\ UNCHANGED rcvd
    /\ UNCHANGED serverVars
    /\ UNCHANGED ghostVars
    /\ UNCHANGED uploadVars
    /\ UNCHANGED composeVars
    /\ UNCHANGED canvasVars

\* the component re-renders: usePartySocket gets a new onMessage closure
Render(c) ==
    /\ seen[c] # cmsgs[c]
    /\ seen' = [seen EXCEPT ![c] = cmsgs[c]]
    /\ UNCHANGED <<cmsgs, out, rcvd, usedIds, opt>>
    /\ UNCHANGED serverVars
    /\ UNCHANGED ghostVars
    /\ UNCHANGED uploadVars
    /\ UNCHANGED composeVars
    /\ UNCHANGED canvasVars

\* the server receives the oldest payload in flight from the client on c
ServerRecv(c) ==
    /\ out[c] # << >>
    /\ ServerMessage(c, Head(out[c]))
    /\ out' = [out EXCEPT ![c] = Tail(@)]
    /\ UNCHANGED <<cmsgs, seen, rcvd, usedIds, opt>>
    /\ UNCHANGED ghostVars
    /\ UNCHANGED uploadVars
    /\ UNCHANGED composeVars
    /\ UNCHANGED canvasVars

\* ------------------------------------------------------------ normalizeSvg
Sign(n) == IF n > 0 THEN 1 ELSE IF n < 0 THEN -1 ELSE 0

Abs(n) == IF n < 0 THEN -n ELSE n

RECURSIVE Gcd(_, _)
Gcd(a, b) == IF b = 0 THEN a ELSE Gcd(b, a % b)

\* the number n / d; d = 0 gives Infinity, -Infinity or NaN as in IEEE
Frac(n, d) ==
    IF d = 0 THEN <<Sign(n), 0>>
    ELSE LET g == Gcd(Abs(n), Abs(d))
         IN <<(Sign(d) * n) \div g, Abs(d) \div g>>

R(n) == <<n, 1>>

NaN == <<0, 0>>

IsFinite(a) == a[2] # 0

\* a * b, a - b and a / b of JavaScript numbers
RMul(a, b) ==
    IF IsFinite(a) /\ IsFinite(b) THEN Frac(a[1] * b[1], a[2] * b[2])
    ELSE <<Sign(a[1]) * Sign(b[1]), 0>>

RSub(a, b) ==
    IF IsFinite(a) /\ IsFinite(b)
    THEN Frac(a[1] * b[2] - b[1] * a[2], a[2] * b[2])
    ELSE IF IsFinite(a) THEN <<-b[1], 0>>
    ELSE IF IsFinite(b) THEN a
    ELSE IF a = NaN \/ b = NaN \/ a = b THEN NaN ELSE a

RDiv(a, b) ==
    IF IsFinite(a) /\ IsFinite(b)
    THEN IF b[1] = 0 THEN <<Sign(a[1]), 0>>
         ELSE Frac(a[1] * b[2], a[2] * b[1])
    ELSE IF IsFinite(a) THEN IF b = NaN THEN NaN ELSE R(0)
    ELSE IF IsFinite(b)
         THEN IF b[1] < 0 THEN <<-a[1], 0>> ELSE a
    ELSE NaN

\* const targetSize = 300
targetSize == 300

Max(x, y) == IF x > y THEN x ELSE y

\* an SVG document: the viewBox attribute (<< >> when absent, else
\* <<x, y, width, height>>), the width and height attributes (<< >> or
\* <<n>>), the transform attributes of its first g element (g is << >>
\* when the document has no g element, else << attributes >>), its drawing
\* (the path elements that carry a stroke-width, in the order of the text)
SvgDoc(viewBox, width, height, g, body) ==
    [viewBox |-> viewBox, width |-> width, height |-> height, g |-> g,
     body |-> body]

\* the x, y, width, height that normalizeSvg reads from the document.
\* /width=["']([^"']+)["']/ is not tied to the root element nor to the
\* start of an attribute name: without a width attribute on the root it
\* matches the stroke-width of the first element of the drawing that has one
SourceBox(doc) ==
    LET widthMatch == IF doc.width # << >> THEN doc.width
                      ELSE IF Len(doc.body) > 0 THEN <<doc.body[1].width>>
                      ELSE << >>
    IN IF doc.viewBox # << >> THEN doc.viewBox
       ELSE <<0, 0,
              IF widthMatch # << >> THEN widthMatch[1] ELSE 100,
              IF doc.height # << >> THEN doc.height[1] ELSE 100>>

\* targetSize / Math.max(width, height)
ScaleOfMin(width, height) ==
    RDiv(R(targetSize), R(IF width < height THEN width ELSE height))

ScaleOf(width, height) == RDiv(R(targetSize), R(Max(width, height)))

\* (targetSize - extent * scale) / 2 - origin * scale
OffsetOfNoOrigin(origin, extent, scale) ==
    RDiv(RSub(R(targetSize), RMul(R(extent), scale)), R(2))

OffsetOf(origin, extent, scale) ==
    RSub(RDiv(RSub(R(targetSize), RMul(R(extent), scale)), R(2)),
         RMul(R(origin), scale))

\* the transform normalizeSvg writes: translate(tx,ty) scale(s)
TransformOf(box) ==
    LET scale == ScaleOf(box[3], box[4])
    IN [tx |-> OffsetOf(box[1], box[3], scale),
        ty |-> OffsetOf(box[2], box[4], scale),
        s |-> scale]

normalizeSvg(doc) ==
    SvgDoc(<<0, 0, targetSize, targetSize>>, << >>, << >>,
           IF doc.g = << >>
           THEN << <<TransformOf(SourceBox(doc))>> >>
           ELSE << Append(doc.g[1], TransformOf(SourceBox(doc))) >>,
           doc.body)

\* documents normalizeSvg is called with
Origins == {-10, 0, 20}
Extents == {0, 50, 200, 300}

\* a drawing of one path element with stroke-width="2"
StrokedBody ==
    <<[d |-> <<[cmd |-> "M", x |-> R(0), y |-> R(0)],
               [cmd |-> "L", x |-> R(5), y |-> R(5)]>>,
      width |-> 2]>>

SourceDocs ==
    { SvgDoc(vb, w, h, g, << >>) :
        vb \in {<< >>} \cup
               { <<x, y, bw, bh>> : x \in Origins, y \in Origins,
                                    bw \in Extents, bh \in Extents },
        w \in {<< >>, <<40>>}, h \in {<< >>, <<80>>},
        g \in {<< >>, << << >> >>} }
    \cup
    { SvgDoc(vb, w, h, g, StrokedBody) :
        vb \in {<< >>, <<0, 0, 50, 200>>},
        w \in {<< >>, <<40>>}, h \in {<< >>, <<80>>},
        g \in {<< >>, << << >> >>} }

\* a call normalizeSvg(doc)
NormalizeCall(doc) ==
    /\ norm' = <<[src |-> doc, out |-> normalizeSvg(doc)]>>
    /\ UNCHANGED <<bucket, issued, resp, lastReq, nuuid, nupl, nfiles>>
    /\ UNCHANGED composeVars
    /\ UNCHANGED canvasVars
    /\ UNCHANGED serverVars
    /\ UNCHANGED ghostVars
    /\ UNCHANGED clientVars

\* a call normalizeSvg(doc) on the document the last call returned, as for
\* an attachment that is downloaded and uploaded again
NormalizeAgain ==
    /\ norm # << >>
    /\ Len(norm[1].out.g[1]) < MaxNorm
    /\ norm' = <<[src |-> norm[1].out, out |-> normalizeSvg(norm[1].out)]>>
    /\ UNCHANGED <<bucket, issued, resp, lastReq, nuuid, nupl, nfiles>>
    /\ UNCHANGED composeVars
    /\ UNCHANGED canvasVars
    /\ UNCHANGED serverVars
    /\ UNCHANGED ghostVars
    /\ UNCHANGED clientVars

\* --------------------------------------------------------- handleSvgUpload
LowerCase ==
    {"a", "b", "c", "d", "e", "f", "g", "h", "i", "j", "k", "l", "m", "n", "o", "p", "q", "r", "s", "t", "u", "v", "w", "x", "y", "z"}

UpperCase ==
    {"A", "B", "C", "D", "E", "F", "G", "H", "I", "J", "K", "L", "M", "N", "O", "P", "Q", "R", "S", "T", "U", "V", "W", "X", "Y", "Z"}

Digits == {"0", "1", "2", "3", "4", "5", "6", "7", "8", "9"}

\* the characters the class [a-zA-Z0-9_-] accepts
SafeChars == LowerCase \cup UpperCase \cup Digits \cup {"_", "-"}

\* str.replace(/[^a-zA-Z0-9_-]/g, "_")
Sanitize(str) ==
    [i \in DOMAIN str |-> IF str[i] \in SafeChars THEN str[i] ELSE "_"]

SvgsPrefix == <<"s", "v", "g", "s", "/">>
ApiPrefix == <<"/", "a", "p", "i", "/", "s", "v", "g", "/">>
DotSvg == <<".", "s", "v", "g">>
SvgMime == "image/svg+xml"
DefaultRoom == <<"d", "e", "f", "a", "u", "l", "t">>
DefaultUser == <<"a", "n", "o", "n", "y", "m", "o", "u", "s">>

\* str.endsWith(suffix)
EndsWith(str, suffix) ==
    /\ Len(suffix) <= Len(str)
    /\ SubSeq(str, Len(str) - Len(suffix) + 1, Len(str)) = suffix

\* the test of the loop: a file that is not skipped
IsSvgFileByType(file) == file.type = SvgMime

IsSvgFile(file) == file.type = SvgMime \/ EndsWith(file.name, DotSvg)

\* the n-th value crypto.randomUUID() returns
Uuid(n) == [i \in 1..(n + 1) |-> IF i = 1 THEN "u" ELSE "0"]

\* formData.get(field) || dflt
OrDefault(value, dflt) == IF value = << >> THEN dflt ELSE value

\* `svgs/${safeRoom}/${safeUser}/${safeMessageId}/${file.name}`
KeyOf(safeRoom, safeUser, safeMessageId, name) ==
    SvgsPrefix \o safeRoom \o <<"/">> \o safeUser \o <<"/">>
        \o safeMessageId \o <<"/">> \o name

\* env.SVG_BUCKET.put(key, doc)
Put(b, key, doc) ==
    [k \in DOMAIN b \cup {key} |-> IF k = key THEN doc ELSE b[k]]

\* the for loop from file i on; st holds the bucket, the descriptors pushed,
\* the number of UUIDs drawn, and whether a put has thrown
RECURSIVE UploadFiles(_, _, _, _)
UploadFiles(req, dir, i, st) ==
    IF st.failed \/ i > Len(req.files) THEN st
    ELSE IF ~IsSvgFile(req.files[i]) THEN UploadFiles(req, dir, i + 1, st)
    ELSE LET file == req.files[i]
             fileId == Uuid(st.nuuid + 1)
             key == KeyOf(dir[1], dir[2], dir[3], file.name)
         IN IF req.failAt = i
            THEN [st EXCEPT !.nuuid = @ + 1, !.failed = TRUE]
            ELSE UploadFiles(req, dir, i + 1,
                    [bucket |-> Put(st.bucket, key, normalizeSvg(file.content)),
                     uploaded |-> Append(st.uploaded,
                        [id |-> fileId, url |-> ApiPrefix \o key,
                         filename |-> file.name]),
                     nuuid |-> st.nuuid + 1,
                     failed |-> FALSE])

\* the catch block: what is left when a put has thrown in state st of the
\* loop, b being the bucket before the request
FailureResultRollback(st, b) ==
    [resp |-> [status |-> 500, svgs |-> << >>], bucket |-> b,
     nuuid |-> st.nuuid]

FailureResult(st, b) ==
    [resp |-> [status |-> 500, svgs |-> << >>], bucket |-> st.bucket,
     nuuid |-> st.nuuid]

\* handleSvgUpload for request req, bucket b and n UUIDs drawn before: the
\* response, the bucket and the number of UUIDs drawn afterwards
handleSvgUpload(req, b, n) ==
    IF req.method # "POST"
    THEN [resp |-> [status |-> 405, svgs |-> << >>], bucket |-> b, nuuid |-> n]
    ELSE LET room == OrDefault(req.room, DefaultRoom)
             user == OrDefault(req.user, DefaultUser)
             messageId == OrDefault(req.messageId, Uuid(n + 1))
             n1 == IF req.messageId = << >> THEN n + 1 ELSE n
             dir == <<Sanitize(room), Sanitize(user), Sanitize(messageId)>>
         IN IF Len(req.files) = 0
            THEN [resp |-> [status |-> 400, svgs |-> << >>], bucket |-> b,
                  nuuid |-> n1]
            ELSE LET st == UploadFiles(req, dir, 1,
                              [bucket |-> b, uploaded |-> << >>,
                               nuuid |-> n1, failed |-> FALSE])
                 IN IF st.failed THEN FailureResult(st, b)
                    ELSE [resp |-> [status |-> 200, svgs |-> st.uploaded],
                          bucket |-> st.bucket, nuuid |-> st.nuuid]

\* files of the upload requests
DocA == SvgDoc(<<0, 0, 50, 200>>, << >>, << >>, << >>, << >>)
DocB == SvgDoc(<< >>, <<40>>, <<80>>, << << >> >>, << >>)
DocZ == SvgDoc(<<0, 0, 0, 0>>, << >>, << >>, << >>, << >>)

Files ==
    { [name |-> <<"x", ".", "s", "v", "g">>, type |-> SvgMime, content |-> DocA],
      [name |-> <<"x", ".", "s", "v", "g">>, type |-> "", content |-> DocB],
      [name |-> <<"p", ".", "p", "n", "g">>, type |-> "image/png", content |-> DocA],
      [name |-> <<".", ".", "/", "e">>, type |-> SvgMime, content |-> DocZ] }

Batches == UNION { [1..n -> Files] : n \in 0..MaxFiles }

\* the room, user and messageId fields of the form; << >> is a field that
\* is absent or empty
Forms ==
    { [room |-> << >>, user |-> <<"A", ".">>, messageId |-> <<"m">>],
      [room |-> <<"r", "/">>, user |-> << >>, messageId |-> << >>] }

\* failAt is the index of the file whose put throws (0: no put throws);
\* only a file that is not skipped is put
FailPoints(fs) == {0} \cup { i \in DOMAIN fs : IsSvgFile(fs[i]) }

Requests ==
    UNION { { [method |-> "POST", files |-> fs, room |-> f.room,
               user |-> f.user, messageId |-> f.messageId, failAt |-> k] :
                f \in Forms, k \in FailPoints(fs) } : fs \in Batches }
    \cup { [method |-> "GET", files |-> << >>, room |-> << >>,
            user |-> << >>, messageId |-> << >>, failAt |-> 0] }

\* the storage key a descriptor's url names
KeyOfUrl(url) == SubSeq(url, Len(ApiPrefix) + 1, Len(url))

\* a request to /api/svg/upload is handled
Upload(req) ==
    /\ nupl < MaxUploads
    /\ nfiles + Len(req.files) <= MaxFiles
    /\ nupl' = nupl + 1
    /\ nfiles' = nfiles + Len(req.files)
    /\ LET res == handleSvgUpload(req, bucket, nuuid)
       IN /\ bucket' = res.bucket
          /\ resp' = res.resp
          /\ nuuid' = res.nuuid
          /\ issued' = issued \cup
                { [id |-> res.resp.svgs[i].id, url |-> res.resp.svgs[i].url,
                   bytes |-> res.bucket[KeyOfUrl(res.resp.svgs[i].url)]] :
                    i \in DOMAIN res.resp.svgs }
    /\ lastReq' = req
    /\ UNCHANGED norm
    /\ UNCHANGED composeVars
    /\ UNCHANGED canvasVars
    /\ UNCHANGED serverVars
    /\ UNCHANGED ghostVars
    /\ UNCHANGED clientVars

\* --------------------------------------------------- App attachment composer
\* currentMessageIdRef.current || nanoid(8): the ids the expression may yield
MessageIdChoices == IF msgIdRef # "null" THEN {msgIdRef} ELSE Ids \ usedIds

\* handleFileSelect ("file") or handleHandwritingSave ("handwriting") up to
\* its await of fetch
StartUpload(handler) ==
    /\ nstarted < MaxUploads
    /\ nstarted' = nstarted + 1
    /\ \E id \in MessageIdChoices :
        /\ msgIdRef' = id
        /\ usedIds' = usedIds \cup {id}
        /\ inflight' = inflight \cup
                {[handler |-> handler, messageId |-> id, n |-> nstarted + 1]}
    /\ UNCHANGED <<pendingSvgs, posted>>
    /\ UNCHANGED <<cmsgs, seen, out, rcvd, opt>>
    /\ UNCHANGED serverVars
    /\ UNCHANGED ghostVars
    /\ UNCHANGED uploadVars
    /\ UNCHANGED canvasVars

\* the rest of the handler of upload u, once fetch has returned; ok is
\* response.ok.  The descriptor's url has the messageId of the form in its
\* message id segment: handleSvgUpload's replace leaves an id of nanoid as it
\* is, its alphabet being within [a-zA-Z0-9_-].
FinishUpload(u, ok) ==
    /\ u \in inflight
    /\ inflight' = inflight \ {u}
    /\ pendingSvgs' =
            IF ok THEN Append(pendingSvgs, [id |-> u.n, messageId |-> u.messageId])
            ELSE pendingSvgs
    /\ UNCHANGED <<msgIdRef, nstarted, posted>>
    /\ UNCHANGED clientVars
    /\ UNCHANGED serverVars
    /\ UNCHANGED ghostVars
    /\ UNCHANGED uploadVars
    /\ UNCHANGED canvasVars

\* removePendingSvg(id)
RemovePendingSvg(id) ==
    /\ \E i \in DOMAIN pendingSvgs : pendingSvgs[i].id = id
    /\ LET IsKept(svg) == svg.id # id
           updated == SelectSeq(pendingSvgs, IsKept)
       IN /\ pendingSvgs' = updated
          /\ msgIdRef' = IF Len(updated) = 0 THEN "null" ELSE msgIdRef
    /\ UNCHANGED <<inflight, nstarted, posted>>
    /\ UNCHANGED clientVars
    /\ UNCHANGED serverVars
    /\ UNCHANGED ghostVars
    /\ UNCHANGED uploadVars
    /\ UNCHANGED canvasVars

\* form onSubmit with the text content, as to the id and the attachments of
\* the message it sends
SubmitForm(content) ==
    /\ ~(content = "" /\ Len(pendingSvgs) = 0)
    /\ \E id \in MessageIdChoices :
        /\ posted' = Append(posted, [id |-> id, svgs |-> pendingSvgs])
        /\ usedIds' = usedIds \cup {id}
    /\ pendingSvgs' = << >>
    /\ msgIdRef' = "null"
    /\ UNCHANGED <<inflight, nstarted>>
    /\ UNCHANGED <<cmsgs, seen, out, rcvd, opt>>
    /\ UNCHANGED serverVars
    /\ UNCHANGED ghostVars
    /\ UNCHANGED uploadVars
    /\ UNCHANGED canvasVars

\* --------------------------------------------------------- HandwritingCanvas
\* <canvas width={400} height={300}>
CanvasWidth == 400
CanvasHeight == 300

\* canvas.getBoundingClientRect() in the page
Rect == [left |-> 10, top |-> 10, width |-> 400, height |-> 300]

\* positions of the pointer in the page; a touch that started on the canvas
\* keeps reporting to it after it has left the surface
PointerEvents ==
    { [clientX |-> -10, clientY |-> 50], [clientX |-> 70, clientY |-> 210],
      [clientX |-> 270, clientY |-> 130] }

getCoordinates(e) ==
    [x |-> ((e.clientX - Rect.left) * CanvasWidth) \div Rect.width,
     y |-> ((e.clientY - Rect.top) * CanvasHeight) \div Rect.height]

\* values of the range input of the stroke width
Widths == {12}

\* Math.max and Math.min of two JavaScript numbers
RMax(a, b) ==
    IF a = NaN \/ b = NaN THEN NaN
    ELSE IF ~IsFinite(a) THEN (IF a[1] > 0 THEN a ELSE b)
    ELSE IF ~IsFinite(b) THEN (IF b[1] > 0 THEN b ELSE a)
    ELSE IF a[1] * b[2] >= b[1] * a[2] THEN a ELSE b

RMin(a, b) ==
    IF a = NaN \/ b = NaN THEN NaN
    ELSE IF ~IsFinite(a) THEN (IF a[1] < 0 THEN a ELSE b)
    ELSE IF ~IsFinite(b) THEN (IF b[1] < 0 THEN b ELSE a)
    ELSE IF a[1] * b[2] <= b[1] * a[2] THEN a ELSE b

RECURSIVE Pow10(_)
Pow10(k) == IF k = 0 THEN 1 ELSE 10 * Pow10(k - 1)

\* the number a.toFixed(k) prints: the nearest multiple of 10^-k, a tie
\* going away from zero
ToFixed(a, k) ==
    IF ~IsFinite(a) THEN a
    ELSE Frac(Sign(a[1]) * ((2 * Abs(a[1]) * Pow10(k) + a[2]) \div (2 * a[2])),
              Pow10(k))

\* the points of all strokes, in the order of the two loops
RECURSIVE PointsOf(_)
PointsOf(ps) ==
    IF ps = << >> THEN << >> ELSE ps[1].points \o PointsOf(Tail(ps))

\* the loops over point.x / point.y starting from Infinity / -Infinity
RECURSIVE MinOver(_, _)
MinOver(ns, acc) ==
    IF ns = << >> THEN acc ELSE MinOver(Tail(ns), RMin(acc, R(ns[1])))

RECURSIVE MaxOver(_, _)
MaxOver(ns, acc) ==
    IF ns = << >> THEN acc ELSE MaxOver(Tail(ns), RMax(acc, R(ns[1])))

\* Math.max(...paths.map(p => p.width), 3) + 4
PaddingOf(ps) ==
    RSub(MaxOver([i \in DOMAIN ps |-> ps[i].width], R(3)), R(-4))

\* minX, minY, maxX, maxY after the padding
InkBox(ps) ==
    LET pts == PointsOf(ps)
        xs == [i \in DOMAIN pts |-> pts[i].x]
        ys == [i \in DOMAIN pts |-> pts[i].y]
        padding == PaddingOf(ps)
    IN [minX |-> RMax(R(0), RSub(MinOver(xs, <<1, 0>>), padding)),
        minY |-> RMax(R(0), RSub(MinOver(ys, <<1, 0>>), padding)),
        maxX |-> RSub(MaxOver(xs, <<-1, 0>>), RSub(R(0), padding)),
        maxY |-> RSub(MaxOver(ys, <<-1, 0>>), RSub(R(0), padding))]

\* const targetSize = 300 of generateSvgBlob
inkTargetSize == 300

\* the transform attribute generateSvgBlob writes:
\* translate(tx,ty) scale(s) translate(px,py)
InkTransformNoShift(box) ==
    LET contentWidth == RSub(box.maxX, box.minX)
        contentHeight == RSub(box.maxY, box.minY)
        scale == RDiv(R(inkTargetSize), RMax(contentWidth, contentHeight))
        offsetX == RDiv(RSub(R(inkTargetSize), RMul(contentWidth, scale)), R(2))
        offsetY == RDiv(RSub(R(inkTargetSize), RMul(contentHeight, scale)), R(2))
    IN [tx |-> ToFixed(offsetX, 2), ty |-> ToFixed(offsetY, 2),
        s |-> ToFixed(scale, 4), px |-> R(0), py |-> R(0)]

InkTransform(box) ==
    LET contentWidth == RSub(box.maxX, box.minX)
        contentHeight == RSub(box.maxY, box.minY)
        scale == RDiv(R(inkTargetSize), RMax(contentWidth, contentHeight))
        offsetX == RDiv(RSub(R(inkTargetSize), RMul(contentWidth, scale)), R(2))
        offsetY == RDiv(RSub(R(inkTargetSize), RMul(contentHeight, scale)), R(2))
    IN [tx |-> ToFixed(offsetX, 2), ty |-> ToFixed(offsetY, 2),
        s |-> ToFixed(scale, 4),
        px |-> ToFixed(RSub(R(0), box.minX), 2),
        py |-> ToFixed(RSub(R(0), box.minY), 2)]

\* the path element of one stroke: its d commands and its stroke-width
PathElementAllLines(path) ==
    [d |-> [i \in DOMAIN path.points |->
                [cmd |-> "L",
                 x |-> ToFixed(R(path.points[i].x), 2),
                 y |-> ToFixed(R(path.points[i].y), 2)]],
     width |-> path.width]

PathElement(path) ==
    [d |-> [i \in DOMAIN path.points |->
                [cmd |-> IF i = 1 THEN "M" ELSE "L",
                 x |-> ToFixed(R(path.points[i].x), 2),
                 y |-> ToFixed(R(path.points[i].y), 2)]],
     width |-> path.width]

\* the path elements of the strokes that are not skipped
RECURSIVE PathElements(_)
PathElements(ps) ==
    IF ps = << >> THEN << >>
    ELSE IF Len(ps[1].points) < 2 THEN PathElements(Tail(ps))
    ELSE <<PathElement(ps[1])>> \o PathElements(Tail(ps))

generateSvgBlob(ps) ==
    SvgDoc(<<0, 0, inkTargetSize, inkTargetSize>>, <<inkTargetSize>>,
           <<inkTargetSize>>, << <<InkTransform(InkBox(ps))>> >>,
           PathElements(ps))

startDrawing(e) ==
    /\ npoints < MaxPoints
    /\ npoints' = npoints + 1
    /\ isDrawing' = TRUE
    /\ currentPath' = <<getCoordinates(e)>>
    /\ UNCHANGED <<paths, strokeWidth, saved, lastSave>>
    /\ UNCHANGED serverVars
    /\ UNCHANGED ghostVars
    /\ UNCHANGED clientVars
    /\ UNCHANGED uploadVars
    /\ UNCHANGED composeVars

draw(e) ==
    /\ isDrawing
    /\ npoints < MaxPoints
    /\ npoints' = npoints + 1
    /\ currentPath' = Append(currentPath, getCoordinates(e))
    /\ UNCHANGED <<paths, isDrawing, strokeWidth, saved, lastSave>>
    /\ UNCHANGED serverVars
    /\ UNCHANGED ghostVars
    /\ UNCHANGED clientVars
    /\ UNCHANGED uploadVars
    /\ UNCHANGED composeVars

stopDrawing ==
    /\ IF isDrawing /\ Len(currentPath) > 0
       THEN /\ paths' = Append(paths, [points |-> currentPath,
                                       width |-> strokeWidth])
            /\ currentPath' = << >>
       ELSE UNCHANGED <<paths, currentPath>>
    /\ isDrawing' = FALSE
    /\ UNCHANGED <<strokeWidth, saved, lastSave, npoints>>
    /\ UNCHANGED serverVars
    /\ UNCHANGED ghostVars
    /\ UNCHANGED clientVars
    /\ UNCHANGED uploadVars
    /\ UNCHANGED composeVars

setStrokeWidth(w) ==
    /\ strokeWidth' = w
    /\ UNCHANGED <<paths, currentPath, isDrawing, saved, lastSave, npoints>>
    /\ UNCHANGED serverVars
    /\ UNCHANGED ghostVars
    /\ UNCHANGED clientVars
    /\ UNCHANGED uploadVars
    /\ UNCHANGED composeVars

clearCanvas ==
    /\ paths' = << >>
    /\ currentPath' = << >>
    /\ UNCHANGED <<isDrawing, strokeWidth, saved, lastSave, npoints>>
    /\ UNCHANGED serverVars
    /\ UNCHANGED ghostVars
    /\ UNCHANGED clientVars
    /\ UNCHANGED uploadVars
    /\ UNCHANGED composeVars

undoLast ==
    /\ paths' = SubSeq(paths, 1, Len(paths) - 1)
    /\ UNCHANGED <<currentPath, isDrawing, strokeWidth, saved, lastSave, npoints>>
    /\ UNCHANGED serverVars
    /\ UNCHANGED ghostVars
    /\ UNCHANGED clientVars
    /\ UNCHANGED uploadVars
    /\ UNCHANGED composeVars

\* if (paths.length === 0) return
SaveSkippedNever(ps) == FALSE

SaveSkipped(ps) == Len(ps) = 0

handleSaveAndContinue ==
    /\ IF SaveSkipped(paths)
       THEN /\ lastSave' = "skipped"
            /\ UNCHANGED <<paths, currentPath, saved>>
       ELSE /\ lastSave' = "saved"
            /\ saved' = <<[doc |-> generateSvgBlob(paths), keepOpen |-> TRUE,
                           paths |-> paths]>>
            /\ paths' = << >>
            /\ currentPath' = << >>
    /\ UNCHANGED <<isDrawing, strokeWidth, npoints>>
    /\ UNCHANGED serverVars
    /\ UNCHANGED ghostVars
    /\ UNCHANGED clientVars
    /\ UNCHANGED uploadVars
    /\ UNCHANGED composeVars

handleSaveAndClose ==
    /\ IF SaveSkipped(paths)
       THEN /\ lastSave' = "skipped"
            /\ UNCHANGED saved
       ELSE /\ lastSave' = "saved"
            /\ saved' = <<[doc |-> generateSvgBlob(paths), keepOpen |-> FALSE,
                           paths |-> paths]>>
    /\ UNCHANGED <<paths, currentPath, isDrawing, strokeWidth, npoints>>
    /\ UNCHANGED serverVars
    /\ UNCHANGED ghostVars
    /\ UNCHANGED clientVars
    /\ UNCHANGED uploadVars
    /\ UNCHANGED composeVars

\* ---------------------------------------------------------- specifications
\* the room as the hosting runtime drives it, payloads chosen by the network
Next ==
    \/ OnStart
    \/ Hibernate
    \/ \E c \in Conns : OnConnect(c)
    \/ \E c \in Conns : OnClose(c)
    \/ \E c \in Conns, p \in WirePayloads : OnMessage(c, p)

Spec == Init /\ [][Next]_vars

\* a fresh room receiving nothing but saveMessage calls
NextSave ==
    \/ OnStart
    \/ \E m \in SavedMessages : SaveCall(m)

SpecSave == Init /\ [][NextSave]_vars

\* clients running App; a re-render is a step of its own, so a payload may
\* be handled by a closure that holds an older list
NextSync ==
    \/ OnStart
    \/ \E c \in Conns : OnConnect(c)
    \/ \E c \in Conns : OnClose(c)
    \/ \E c \in Conns, content \in Contents : Submit(c, content, FALSE)
    \/ \E c \in Conns : ServerRecv(c)
    \/ \E c \in Conns : Deliver(c, FALSE)
    \/ \E c \in Conns : Render(c)

SpecSync == Init /\ [][NextSync]_vars

\* clients running App whose component re-renders after every event
NextFresh ==
    \/ OnStart
    \/ \E c \in Conns : OnConnect(c)
    \/ \E c \in Conns : OnClose(c)
    \/ \E c \in Conns, content \in Contents : Submit(c, content, TRUE)
    \/ \E c \in Conns : ServerRecv(c)
    \/ \E c \in Conns : Deliver(c, TRUE)

SpecFresh == Init /\ [][NextFresh]_vars

\* the room with payloads chosen by the network, and clients that handle
\* what they are sent and re-render after every event
NextWire ==
    \/ OnStart
    \/ \E c \in Conns : OnConnect(c)
    \/ \E c \in Conns : OnClose(c)
    \/ \E c \in Conns, p \in WirePayloads : OnMessage(c, p)
    \/ \E c \in Conns : Deliver(c, TRUE)

SpecWire == Init /\ [][NextWire]_vars

\* normalizeSvg called with any document
NextNorm == \E doc \in SourceDocs : NormalizeCall(doc)

SpecNorm == Init /\ [][NextNorm]_vars

\* the upload endpoint receiving any requests
NextUpload ==
    \E req \in Requests : Upload(req)

SpecUpload == Init /\ [][NextUpload]_vars

\* normalizeSvg called with any document, and again with its own results
NextRenorm ==
    \/ \E doc \in SourceDocs : NormalizeCall(doc)
    \/ NormalizeAgain

SpecRenorm == Init /\ [][NextRenorm]_vars

\* messages of one user saved while the durable write may fail
FailMessages == { m \in WireMessages : m.user = "Alice" }

\* saveMessage calls whose durable write succeeds or throws, in a room that
\* one client joins and leaves and that may be evicted
NextSaveFail ==
    \/ OnStart
    \/ Hibernate
    \/ \E m \in FailMessages : SaveCall(m)
    \/ \E m \in FailMessages : SaveCallFails(m)
    \/ OnConnect("c1")
    \/ OnClose("c1")

SpecSaveFail == Init /\ [][NextSaveFail]_vars

\* a room whose persisted rows may be damaged, started, evicted and joined
NextCorrupt ==
    \/ OnStart
    \/ OnStartFails
    \/ Hibernate
    \/ \E m \in FailMessages : SaveCall(m)
    \/ \E i \in 1..Cardinality(Ids) : CorruptRow(i)
    \/ OnConnect("c1")
    \/ OnClose("c1")

SpecCorrupt == Init /\ [][NextCorrupt]_vars

\* one client attaching files and handwriting, removing them and submitting
NextCompose ==
    \/ \E handler \in {"file", "handwriting"} : StartUpload(handler)
    \/ \E u \in inflight, ok \in BOOLEAN : FinishUpload(u, ok)
    \/ \E id \in 1..MaxUploads : RemovePendingSvg(id)
    \/ \E content \in {""} \cup Contents : SubmitForm(content)

SpecCompose == Init /\ [][NextCompose]_vars

\* the handwriting canvas under pointer events and clicks on its buttons
NextCanvas ==
    \/ \E e \in PointerEvents : startDrawing(e)
    \/ \E e \in PointerEvents : draw(e)
    \/ stopDrawing
    \/ \E w \in Widths : setStrokeWidth(w)
    \/ clearCanvas
    \/ undoLast
    \/ handleSaveAndContinue
    \/ handleSaveAndClose

SpecCanvas == Init /\ [][NextCanvas]_vars

\* ------------------------------------------------------------------ claims
IdSeq(list) == [i \in DOMAIN list |-> list[i].id]

\* the store holds message m: an equal entry in the list, and a row of the
\* table carrying m's id with the columns the upsert writes
StoreHas(mem, tab, m) ==
    /\ \E i \in DOMAIN mem : mem[i] = m
    /\ \E i \in DOMAIN tab :
        /\ tab[i].id = m.id
        /\ tab[i].content = m.content
        /\ tab[i].timestamp = TimestampOrNull(m.timestamp)
        /\ tab[i].svgs = SvgsJson(m.svgs)

\* C1: after any sequence of saveMessage calls on a fresh room, the list
\* holds every saved id exactly once, in the order the ids were first
\* saved, and each entry is the last message saved under its id.
C1_FirstPositionLastWrite ==
    /\ NoDup(messages)
    /\ IdSeq(messages) = firstSeen
    /\ \A i \in DOMAIN messages : messages[i] = latest[messages[i].id]

\* an id saved again after a second id came in: it kept the first place and
\* holds the later content and user
C1_Witness ==
    /\ Len(messages) = 2
    /\ messages[1].id = "a"
    /\ messages[1].content = "hi there"
    /\ table[1].user # messages[1].user

\* C2: in every reachable state of the room no id occurs twice in the
\* in-memory list, and no id occurs twice in the rows of the table.
C2_UniqueIds == NoDup(messages) /\ NoDup(table)

\* a payload for an id the store already held was handled
C2_Witness ==
    /\ status = "started"
    /\ IsUpsert(bcast.payload)
    /\ bcast.payload.id \in IdsOf(bcast.mem)
    /\ Len(messages) = 1
    /\ Len(table) = 1

\* C3: when onMessage broadcasts an add or update, the store (list and
\* table) already holds that message at the moment of the broadcast.
C3_StoredBeforeBroadcast ==
    (IsUpsert(bcast.payload) /\ bcast.to # {})
        => StoreHas(bcast.mem, bcast.tab, ParsedMessage(bcast.payload))

\* C4: whenever the room is active, loading the table again yields the list
\* the room holds in memory (same ids, order and fields).
C4_ReloadEqualsMemory ==
    status = "started" => LoadMessages(table) = messages

\* C7: a connection is sent a snapshot exactly once, when it joins, holding
\* the room's whole list; a member is never sent a snapshot afterwards.
C7_SnapshotOnlyOnJoin ==
    /\ [](\A c \in conns :
            /\ Len(sent[c]) >= 1
            /\ sent[c][1].type = "all"
            /\ \A i \in 2..Len(sent[c]) : sent[c][i].type # "all")
    /\ [][\A c \in Conns :
            (c \notin conns /\ c \in conns') => sent'[c] = <<All(messages)>>]_vars

C9_LoadedBeforeServing ==
    [][/\ \A c \in Conns :
            (c \notin conns /\ c \in conns')
                => /\ status = "started"
                   /\ sent'[c][1].type = "all"
                   /\ IdSeq(sent'[c][1].messages) = IdSeq(table)
       /\ nrecv' # nrecv => status = "started"]_vars

\* a connection joined a room that was loaded again from a table with two
\* rows, and got both
C9_Witness ==
    /\ status = "started"
    /\ Len(table) = 2
    /\ \E c \in conns :
        /\ Len(sent[c]) = 1
        /\ Len(sent[c][1].messages) = 2

\* C10: in every store state, handling a message tagged add and handling
\* the same message tagged update leave the same list and the same table.
C10_AddEqualsUpdate ==
    \A m \in WireMessages :
        StoreAfter(messages, table, Tag("add", m))
            = StoreAfter(messages, table, Tag("update", m))

\* an update for an id the store did not hold was handled and inserted
C10_Witness ==
    /\ bcast.payload.type = "update"
    /\ bcast.payload.id \notin IdsOf(bcast.mem)
    /\ StoreHas(messages, table, ParsedMessage(bcast.payload))

\* no payload is in flight in either direction
Quiescent ==
    \A c \in conns : rcvd[c] = Len(sent[c]) /\ out[c] = << >>

\* C5: in every quiescent state, each connected client that has handled its
\* snapshot holds the list the store holds.
C5_ClientsEqualStore ==
    Quiescent => \A c \in conns : rcvd[c] >= 1 => cmsgs[c] = messages

\* the echo of the add for id was handled by the client on c
EchoHandled(c, id) ==
    \E i \in 1..rcvd[c] : sent[c][i].type = "add" /\ sent[c][i].id = id

\* C6: once a client has handled the echo of a message it submitted, its
\* list holds one entry for that id, where the optimistic entry was put.
C6_EchoReplacesOptimistic ==
    \A c \in conns : \A e \in opt[c] :
        EchoHandled(c, e[1])
            => /\ Count(cmsgs[c], e[1]) = 1
               /\ e[2] \in DOMAIN cmsgs[c]
               /\ cmsgs[c][e[2]].id = e[1]

\* the client on c handles a payload in this step
Handles(c) == c \in conns /\ rcvd'[c] = rcvd[c] + 1

\* the payload the client on c handles next
NextPayload(c) == sent[c][rcvd[c] + 1]

\* C11: when a client handles an add for an id its list does not hold, the
\* message is appended as one new last entry; when it handles an add or
\* update for an id its list holds, the list keeps its length and the place
\* of every id, and holds no id twice.
C11_AppendOrReplace ==
    [][\A c \in Conns :
        Handles(c) =>
            /\ (NextPayload(c).type = "add"
                    /\ NextPayload(c).id \notin IdsOf(cmsgs[c]))
                => cmsgs'[c] = Append(cmsgs[c], ParsedMessage(NextPayload(c)))
            /\ (IsUpsert(NextPayload(c))
                    /\ NextPayload(c).id \in IdsOf(cmsgs[c]))
                => /\ IdSeq(cmsgs'[c]) = IdSeq(cmsgs[c])
                   /\ NoDup(cmsgs'[c])]_vars

\* C12: when a client handles an add or update for an id its list does not
\* hold, its list holds that message afterwards.
C12_UnknownIdInserted ==
    [][\A c \in Conns :
        (Handles(c) /\ IsUpsert(NextPayload(c))
            /\ NextPayload(c).id \notin IdsOf(cmsgs[c]))
        => \E i \in DOMAIN cmsgs'[c] :
                cmsgs'[c][i] = ParsedMessage(NextPayload(c))]_vars

\* C13: when a client handles a snapshot its list becomes the snapshot's
\* list, and the snapshot a joining connection is sent holds the store's
\* list at the join.
C13_SnapshotReplacesList ==
    [][\A c \in Conns :
        /\ (Handles(c) /\ NextPayload(c).type = "all")
            => cmsgs'[c] = NextPayload(c).messages
        /\ (c \notin conns /\ c \in conns')
            => sent'[c] = <<All(messages)>>]_vars

\* a client whose list held an entry the store never got has handled the
\* snapshot of its join: its list is the store's list, without that entry
C13_Witness ==
    \E c \in conns :
        /\ rcvd[c] = 1
        /\ Len(sent[c]) = 1
        /\ opt[c] = {}
        /\ usedIds = Ids
        /\ Len(messages) = 1
        /\ cmsgs[c] = messages

\* s is a suffix of t
SuffixOf(s, t) ==
    /\ Len(s) <= Len(t)
    /\ s = SubSeq(t, Len(t) - Len(s) + 1, Len(t))

\* C14: the broadcasts two members were sent are in one common order, the
\* order in which onMessage handled them: each handled payload goes to the
\* end of every member's sequence in the step that applies it to the store.
C14_CommonOrder ==
    /\ [](\A c, d \in conns :
            \/ SuffixOf(Tail(sent[c]), Tail(sent[d]))
            \/ SuffixOf(Tail(sent[d]), Tail(sent[c])))
    /\ [][nrecv' # nrecv =>
            \A d \in conns :
                /\ sent'[d] = Append(sent[d], bcast'.payload)
                /\ <<messages', table'>> = StoreAfter(messages, table, bcast'.payload)]_vars

\* two members were sent two different payloads from the two connections
C14_Witness ==
    /\ conns = Conns
    /\ nrecv = 2
    /\ Len(sent["c1"]) = 3
    /\ sent["c1"] = sent["c2"]
    /\ sent["c1"][2] # sent["c1"][3]
    /\ bcast.from = "c2"
    /\ bcast.mem # messages

\* a file of type image/svg+xml or named *.svg
ValidVector(file) ==
    \/ file.type = "image/svg+xml"
    \/ EndsWith(file.name, <<".", "s", "v", "g">>)

\* the last request was an upload, and the handler has answered it
Uploaded == nupl > 0 /\ lastReq.method = "POST"

\* C15: an upload whose batch holds no valid vector file, empty or not, is
\* answered with status 400, and a 200 response lists at least one
\* descriptor.
C15_NoValidFileIs400 ==
    Uploaded =>
        /\ (\A i \in DOMAIN lastReq.files : ~ValidVector(lastReq.files[i]))
                => resp.status = 400
        /\ resp.status = 200 => Len(resp.svgs) >= 1

\* C16: files that are not vector files do not fail a batch that holds a
\* vector file, and a 200 response lists one descriptor {id, url, filename}
\* per valid file, in the order of the submission, each url naming a stored
\* object, the ids distinct.
C16_DescriptorsInOrder ==
    Uploaded =>
        LET valid == SelectSeq(lastReq.files, ValidVector)
        IN /\ (Len(valid) >= 1 /\ lastReq.failAt = 0) => resp.status = 200
           /\ resp.status = 200 =>
                /\ Len(resp.svgs) = Len(valid)
                /\ \A i \in DOMAIN resp.svgs :
                    /\ resp.svgs[i].filename = valid[i].name
                    /\ EndsWith(resp.svgs[i].url, <<"/">> \o valid[i].name)
                    /\ KeyOfUrl(resp.svgs[i].url) \in DOMAIN bucket
                    /\ \A j \in DOMAIN resp.svgs :
                        resp.svgs[i].id = resp.svgs[j].id => i = j

\* a batch of three files, the second one a .png, was answered with the
\* descriptors of the first and the third
C16_Witness ==
    /\ Uploaded
    /\ Len(lastReq.files) = 3
    /\ ValidVector(lastReq.files[1])
    /\ ~ValidVector(lastReq.files[2])
    /\ ValidVector(lastReq.files[3])
    /\ lastReq.files[1].name # lastReq.files[3].name
    /\ resp.status = 200
    /\ Len(resp.svgs) = 2
    /\ resp.svgs[1].filename = lastReq.files[1].name
    /\ resp.svgs[2].filename = lastReq.files[3].name

\* C17: every key written to the bucket is svgs/ followed by four segments
\* (room, author, message id, filename) that hold only letters, digits, "_"
\* and "-".
C17_KeySegmentsSafe ==
    \A key \in DOMAIN bucket :
        LET rest == SubSeq(key, Len(SvgsPrefix) + 1, Len(key))
        IN /\ SubSeq(key, 1, Len(SvgsPrefix)) = SvgsPrefix
           /\ Cardinality({ i \in DOMAIN rest : rest[i] = "/" }) = 3
           /\ \A i \in DOMAIN rest : rest[i] = "/" \/ rest[i] \in SafeChars

\* C18: the object a returned descriptor names keeps the bytes it had when
\* the descriptor was returned, and two descriptors never share a url.
C18_Immutable ==
    /\ \A d \in issued : bucket[KeyOfUrl(d.url)] = d.bytes
    /\ \A d, e \in issued : d.id # e.id => d.url # e.url

\* C19: when the put of a file throws, the response is 500, every object
\* stored before the request is still stored with its key, the file put last
\* under each name before the failing one is stored, and the message list
\* and the messages table are as before.
C19_FailedWriteNoRollback ==
    [][(nupl' = nupl + 1 /\ lastReq'.failAt # 0) =>
        /\ resp'.status = 500
        /\ resp'.svgs = << >>
        /\ DOMAIN bucket \subseteq DOMAIN bucket'
        /\ \A i \in 1..(lastReq'.failAt - 1) :
            (/\ ValidVector(lastReq'.files[i])
             /\ \A j \in (i + 1)..(lastReq'.failAt - 1) :
                    lastReq'.files[j].name # lastReq'.files[i].name)
            => \E key \in DOMAIN bucket' :
                /\ EndsWith(key, <<"/">> \o lastReq'.files[i].name)
                /\ bucket'[key] = normalizeSvg(lastReq'.files[i].content)
        /\ UNCHANGED <<messages, table, cmsgs>>]_vars

\* the put of the second file of a batch threw after the first was stored
C19_Witness ==
    /\ Uploaded
    /\ lastReq.failAt = 2
    /\ ValidVector(lastReq.files[1])
    /\ resp.status = 500
    /\ DOMAIN bucket # {}

\* C20: for a source box with max(width, height) > 0, normalizeSvg writes
\* scale = 300 / max(width, height) and the offsets
\* (300 - extent * scale) / 2 - origin * scale; for the box 0 0 50 200 it
\* writes scale 1.5, a content of 75 by 300, offsetX 112.5 and offsetY 0.
C20_ScaleAndOffsets ==
    norm # << >> =>
        LET box == SourceBox(norm[1].src)
            m == Max(box[3], box[4])
            g == norm[1].out.g[1]
            t == g[Len(g)]
        IN m > 0 =>
            /\ t.s[1] * m = 300 * t.s[2]
            /\ 2 * t.tx[1] * m = t.tx[2] * (300 * m - 300 * box[3] - 600 * box[1])
            /\ 2 * t.ty[1] * m = t.ty[2] * (300 * m - 300 * box[4] - 600 * box[2])
            /\ box = <<0, 0, 50, 200>> =>
                /\ t.s = <<3, 2>>
                /\ RMul(R(box[3]), t.s) = R(75)
                /\ RMul(R(box[4]), t.s) = R(300)
                /\ t.tx = <<225, 2>>
                /\ t.ty = <<0, 1>>

\* normalizeSvg was called with viewBox "0 0 50 200"
C20_Witness ==
    /\ norm # << >>
    /\ norm[1].src.viewBox = <<0, 0, 50, 200>>
    /\ norm[1].out.g[1][1].s = <<3, 2>>

\* where translate(off) scale(s) takes the coordinate p
MapCoord(off, s, p) == RSub(off, RMul(R(-p), s))

\* a <= b for finite numbers, compared over the least common denominator
RLeq(a, b) ==
    LET g == Gcd(a[2], b[2])
    IN a[1] * (b[2] \div g) <= b[1] * (a[2] \div g)

\* C21: the transform normalizeSvg writes for a source box with
\* max(width, height) > 0 takes the box onto a rectangle inside
\* [0,300] x [0,300]; the longer side goes from 0 to 300 and the shorter
\* side has equal margins, whatever the origin of the box.
C21_BoxFillsAndCentres ==
    norm # << >> =>
        LET box == SourceBox(norm[1].src)
            g == norm[1].out.g[1]
            t == g[Len(g)]
            left == MapCoord(t.tx, t.s, box[1])
            right == MapCoord(t.tx, t.s, box[1] + box[3])
            top == MapCoord(t.ty, t.s, box[2])
            bottom == MapCoord(t.ty, t.s, box[2] + box[4])
        IN Max(box[3], box[4]) > 0 =>
            /\ RLeq(R(0), left) /\ RLeq(left, right) /\ RLeq(right, R(300))
            /\ RLeq(R(0), top) /\ RLeq(top, bottom) /\ RLeq(bottom, R(300))
            /\ left = RSub(R(300), right)
            /\ top = RSub(R(300), bottom)
            /\ box[3] >= box[4] => left = R(0) /\ right = R(300)
            /\ box[4] >= box[3] => top = R(0) /\ bottom = R(300)

\* a box 50 wide and 200 high with a negative x and a positive y origin
\* was normalized: it lands on 112.5 .. 187.5 by 0 .. 300
C21_Witness ==
    /\ norm # << >>
    /\ norm[1].src.viewBox = <<-10, 20, 50, 200>>
    /\ MapCoord(norm[1].out.g[1][1].tx, norm[1].out.g[1][1].s, -10) = <<225, 2>>
    /\ MapCoord(norm[1].out.g[1][1].ty, norm[1].out.g[1][1].s, 220) = R(300)

\* C22: no object in the bucket is the result of normalizeSvg on a document
\* whose bounds have max(width, height) = 0: for such a document the
\* normalizer returns nothing and the handler puts nothing.
C22_DegenerateNotStored ==
    \A key \in DOMAIN bucket :
        \A f \in Files :
            Max(SourceBox(f.content)[3], SourceBox(f.content)[4]) = 0
                => bucket[key] # normalizeSvg(f.content)

\* viewBox 0 0 300 300 and one transform on the root group
Canonical(doc) ==
    /\ doc.viewBox = <<0, 0, targetSize, targetSize>>
    /\ doc.g # << >>
    /\ Len(doc.g[1]) = 1

\* C23: for a canonical document normalizeSvg computes scale 1 and offsets
\* (0, 0), and its result has exactly one transform on the root group, the
\* one the document had.
C23_IdempotentOnCanonical ==
    (norm # << >> /\ Canonical(norm[1].src)) =>
        LET t == TransformOf(SourceBox(norm[1].src))
        IN /\ t.s = R(1) /\ t.tx = R(0) /\ t.ty = R(0)
           /\ Len(norm[1].out.g[1]) = 1
           /\ norm[1].out.g[1][1] = norm[1].src.g[1][1]

\* this step is a saveMessage(m) whose durable write failed
FailedWrite(m) ==
    /\ m.id \in DOMAIN latest'
    /\ latest'[m.id] = m
    /\ m.id \in DOMAIN latest => latest[m.id] # m
    /\ table' = table
    /\ Upsert(table, m) # table

C28_CorruptLoadFailsWhole ==
    /\ [](status = "started" => IdsOf(table) \subseteq IdsOf(messages))
    /\ [][(status # "started" /\ ~Loadable(table)) => status' # "started"]_vars
    /\ [][\A c \in Conns : (c \notin conns /\ c \in conns') =>
            /\ status = "started"
            /\ sent'[c] = << All(messages) >>]_vars

\* onStart has failed on a table with a damaged row, after a client had
\* been served the full list by the room started before
C28_Witness ==
    /\ status = "failed"
    /\ ~Loadable(table)
    /\ Len(table) = 2
    /\ messages = << >>
    /\ "c1" \in conns
    /\ Len(sent["c1"][1].messages) = 2

\* C30: a payload that onMessage sends to the members is an add or update
\* whose message the list holds at the end of the step; any other payload
\* is sent to no member and leaves the list and the table as they were.
C30_OnlyStoredUpsertsBroadcast ==
    [][nrecv' # nrecv =>
        IF IsUpsert(bcast'.payload)
        THEN \E i \in DOMAIN messages' :
                messages'[i] = ParsedMessage(bcast'.payload)
        ELSE /\ bcast'.to = {}
             /\ sent' = sent
             /\ messages' = messages
             /\ table' = table]_vars

\* C29: every attachment of a message the form has sent was uploaded under
\* the id of that message.
C29_AttachmentsUnderOwnId ==
    \A i \in DOMAIN posted :
        \A j \in DOMAIN posted[i].svgs :
            posted[i].svgs[j].messageId = posted[i].id

\* a + b and |a| of finite numbers
RAdd(a, b) == RSub(a, RSub(R(0), b))

RAbs(a) == <<Abs(a[1]), a[2]>>

\* where translate(tx,ty) scale(s) translate(px,py) of the encoder takes the
\* coordinate p, per axis
InkMap(off, s, shift, p) == RAdd(off, RMul(s, RAdd(p, shift)))

\* where the transforms of the root group of the normalized drawing take
\* the x and the y of a path command
FinalX(doc, c) ==
    LET g == normalizeSvg(doc).g[1]
    IN RAdd(g[2].tx, RMul(g[2].s, InkMap(g[1].tx, g[1].s, g[1].px, c.x)))

FinalY(doc, c) ==
    LET g == normalizeSvg(doc).g[1]
    IN RAdd(g[2].ty, RMul(g[2].s, InkMap(g[1].ty, g[1].s, g[1].py, c.y)))

\* C24: in the document a save of the canvas encodes, once normalized,
\* every path point lies in [0,300] x [0,300] after the transforms of the
\* group, also when a stroke has points outside the canvas.
C24_InkInsideTarget ==
    saved # << >> =>
        LET body == normalizeSvg(saved[1].doc).body
        IN \A i \in DOMAIN body : \A j \in DOMAIN body[i].d :
            /\ RLeq(R(0), FinalX(saved[1].doc, body[i].d[j]))
            /\ RLeq(FinalX(saved[1].doc, body[i].d[j]), R(300))
            /\ RLeq(R(0), FinalY(saved[1].doc, body[i].d[j]))
            /\ RLeq(FinalY(saved[1].doc, body[i].d[j]), R(300))

BoxOf(ps) ==
    LET b == InkBox(ps)
    IN <<b.minX, b.minY, RSub(b.maxX, b.minX), RSub(b.maxY, b.minY)>>

\* the transform normalizeSvg computes for a box of that x, y, width, height
NormOf(box) ==
    TransformOf(<<box[1][1], box[2][1], box[3][1], box[4][1]>>)

Close(off, s, shift, noff, ns, min, p) ==
    RLeq(RAbs(RSub(InkMap(off, s, shift, p), RAdd(noff, RMul(ns, p)))),
         RAdd(RMul(Frac(1, 100), RAdd(R(1), ns)),
              RMul(Frac(1, 10000), RAbs(RSub(p, min)))))

C31_SavedHasPath ==
    saved # << >> => Len(saved[1].doc.body) >= 1

C33_PaddedBoxHoldsPoints ==
    saved # << >> =>
        LET ps == saved[1].paths
            pts == PointsOf(ps)
            box == InkBox(ps)
            padding == PaddingOf(ps)
        IN /\ \E i \in DOMAIN ps : padding = R(Max(ps[i].width, 3) + 4)
           /\ \A i \in DOMAIN ps : RLeq(R(Max(ps[i].width, 3) + 4), padding)
           /\ RLeq(R(0), box.minX) /\ RLeq(R(0), box.minY)
           /\ \A i \in DOMAIN pts :
                /\ RLeq(box.minX, R(pts[i].x))
                /\ RLeq(box.minY, R(pts[i].y))
                /\ RLeq(RAdd(R(pts[i].x), padding), box.maxX)
                /\ RLeq(RAdd(R(pts[i].y), padding), box.maxY)

\* C34: the transform normalizeSvg writes is the one of the viewBox when
\* the document has one, whatever its width and height attributes, and
\* else the one of the box at (0,0) with the width attribute, or 100
\* without one, and the height attribute, or 100 without one.
C34_SourceBounds ==
    norm # << >> =>
        LET src == norm[1].src
            g == norm[1].out.g[1]
        IN g[Len(g)] =
            TransformOf(IF src.viewBox # << >> THEN src.viewBox
                        ELSE <<0, 0,
                               IF src.width # << >> THEN src.width[1] ELSE 100,
                               IF src.height # << >> THEN src.height[1]
                               ELSE 100>>)

====
